---- MODULE Spec2Model ----
(***************************************************************************)
(* Model of fastembed/common/model_management.py: the acquisition of a     *)
(* model artifact into a cache directory (ModelManagement.download_model,  *)
(* retrieve_model_gcs, download_file_from_gcs, decompress_to_cache).       *)
(*                                                                         *)
(* The cache directory is the shared state.  Every filesystem operation of *)
(* the code is one step, so that a process can be terminated between any   *)
(* two of them; the archive file is written chunk by chunk and the archive *)
(* is extracted entry by entry.                                            *)
(***************************************************************************)
EXTENDS Naturals, Sequences, FiniteSets

\* Number of chunks of an archive body; chunk i carries archive member i.
NumChunks == 2

Members == 1..NumChunks

\* Artifact names, as the sequence of their "/"-separated segments.
Names == {<<"BAAI", "bge">>}

\* The artifact names of the cache directory: a second artifact is acquired
\* where two acquisitions run side by side.
AllNames == Names \cup {<<"intfloat", "e5">>}

\* The processes that run acquisitions one call after the other.
Procs == {1}

\* The processes of the cache directory: a second one runs where two
\* acquisitions run side by side.
AllProcs == Procs \cup {2}

VARIABLES
    final,      \* final[b]: the directory cache_dir/fast-<b>
    staging,    \* staging[b]: the directory cache_dir/tmp/fast-<b>
    stray,      \* an extracted top-level directory of cache_dir/tmp with another name
    tmpdir,     \* whether cache_dir/tmp exists
    targz,      \* targz[b]: the file cache_dir/fast-<b>.tar.gz
    pc,         \* pc[p]: the position of process p
    nm,         \* nm[p]: model["model"] of the call in progress
    desc,       \* desc[p]: which sources model["sources"] holds
    resp,       \* resp[p]: the body of the HTTP response being read
    idx,        \* idx[p]: chunks written, or archive entries extracted, so far
    arc,        \* arc[p]: the archive file as tarfile has opened it
    rgres,      \* rgres[p]: the outcome of retrieve_model_gcs
    result,     \* result[p]: the outcome of the last download_model call
    call,       \* call[p]: what the call in progress has done so far (history)
    prev,       \* prev[p]: result and history of the call before, same process
    crashed,    \* crashed[p]: where the process before p's was terminated
    dc,         \* a call of decompress_to_cache by another caller
    loc         \* a call of locate_model_file

fs == <<final, staging, stray, tmpdir, targz>>
aux == <<dc, loc>>
vars == <<final, staging, stray, tmpdir, targz, pc, nm, desc, resp, idx, arc,
          rgres, result, call, prev, crashed, dc, loc>>

----------------------------------------------------------------------------
(* Paths and names *)

\* model_name.split('/')[-1]; fast_model_name is "fast-" followed by it
FastModelName(n) == n[Len(n)]

Bases == {FastModelName(n) : n \in AllNames}

\* The segments of str(cache_dir) and of str(cache_tmp_dir)
CacheDir == <<"cache">>
CacheTmpDir == CacheDir \o <<"tmp">>

\* The path segments that have "tmp" as a substring
SegHasTmp(s) == s \in {"tmp", "tmpl", "mytmp"}

\* "tmp" in cache_dir, a substring test on the whole path string
TmpIn(path) == \E i \in DOMAIN path : SegHasTmp(path[i])

----------------------------------------------------------------------------
(* Directories, files, outcomes *)

\* files: the archive members in the directory;
\* stale: the content was left behind by a call that has ended or was killed
Absent == [ex |-> FALSE, files |-> {}, stale |-> FALSE]
NoFile == [ex |-> FALSE, kind |-> "none", len |-> 0]

\* The directory holds the complete contents of the archive
Full(d) == d.ex /\ d.files = Members

\* What the URL can answer with: a valid archive, an archive with damaged data,
\* a valid archive with another top-level folder, an error page sent with a
\* status other than 403; or status 403; or no answer at all.
Bodies == {"valid", "corrupt", "wrong", "errpage"}
Responses == Bodies \cup {"forbidden", "connfail"}

\* The number of leading chunks of the file that tarfile can read.
Readable(f) ==
    CASE f.kind = "valid" -> f.len
      [] f.kind = "wrong" -> f.len
      [] f.kind = "corrupt" -> IF f.len < NumChunks THEN f.len ELSE NumChunks - 1
      [] OTHER -> 0

\* about: the artifact that the message of an exception names
NoResult == [kind |-> "none", val |-> "none", from |-> "none", about |-> <<>>]
PathResult(v, src) == [kind |-> "path", val |-> v, from |-> src, about |-> <<>>]
ErrResult(e, src) == [kind |-> "error", val |-> e, from |-> src, about |-> <<>>]

Descs == [hf : BOOLEAN, url : BOOLEAN]

\* What snapshot_download does: return a path, or raise
HfOutcomes == {"ok", "EnvironmentError", "RepositoryNotFoundError", "ValueError", "Other"}

NoCall == [hf |-> FALSE, hfo |-> "none", http |-> FALSE, bad |-> FALSE,
           arch |-> 0, touched |-> FALSE, cause |-> "none"]
NoPrev == [res |-> NoResult, call |-> NoCall, nm |-> <<>>,
           desc |-> [hf |-> FALSE, url |-> FALSE]]
NoCrash == [at |-> "none", base |-> "none"]

\* Content left in the staging directory of b, once the call that wrote it is over
Stale(st, b) == [st EXCEPT ![b].stale = st[b].ex]

----------------------------------------------------------------------------
\* No call of decompress_to_cache or locate_model_file by another caller
NoDc == [pc |-> "none"]
NoLoc == [pc |-> "none"]

\* An empty cache directory, and no call in progress
Quiet ==
    /\ final = [b \in Bases |-> Absent]
    /\ staging = [b \in Bases |-> Absent]
    /\ stray = Absent
    /\ tmpdir = FALSE
    /\ targz = [b \in Bases |-> NoFile]
    /\ pc = [p \in AllProcs |-> "idle"]
    /\ nm = [p \in AllProcs |-> CHOOSE n \in Names : TRUE]
    /\ desc = [p \in AllProcs |-> [hf |-> FALSE, url |-> FALSE]]
    /\ resp = [p \in AllProcs |-> "none"]
    /\ idx = [p \in AllProcs |-> 0]
    /\ arc = [p \in AllProcs |-> NoFile]
    /\ rgres = [p \in AllProcs |-> NoResult]
    /\ result = [p \in AllProcs |-> NoResult]
    /\ call = [p \in AllProcs |-> NoCall]
    /\ prev = [p \in AllProcs |-> NoPrev]
    /\ crashed = [p \in AllProcs |-> NoCrash]

Init ==
    /\ Quiet
    /\ dc = NoDc
    /\ loc = NoLoc

----------------------------------------------------------------------------
(* download_model *)

\* A caller calls download_model(model, cache_dir) with model["model"] = n and
\* model["sources"] as d says.
DownloadModel(p, n, d) ==
    /\ pc[p] \in {"idle", "done"}
    /\ pc' = [pc EXCEPT ![p] = "dm_hf"]
    /\ nm' = [nm EXCEPT ![p] = n]
    /\ desc' = [desc EXCEPT ![p] = d]
    /\ prev' = [prev EXCEPT ![p] =
                  IF pc[p] = "done"
                  THEN [res |-> result[p], call |-> call[p], nm |-> nm[p],
                        desc |-> desc[p]]
                  ELSE NoPrev]
    /\ crashed' = [crashed EXCEPT ![p] = IF pc[p] = "done" THEN NoCrash ELSE @]
    /\ call' = [call EXCEPT ![p] = NoCall]
    /\ result' = [result EXCEPT ![p] = NoResult]
    /\ rgres' = [rgres EXCEPT ![p] = NoResult]
    /\ resp' = [resp EXCEPT ![p] = "none"]
    /\ idx' = [idx EXCEPT ![p] = 0]
    /\ UNCHANGED fs
    /\ arc' = [arc EXCEPT ![p] = NoFile]
    /\ UNCHANGED aux

\* (mutant) except Exception
RecoverableAny == HfOutcomes \ {"ok"}

\* except (EnvironmentError, RepositoryNotFoundError, ValueError)
Recoverable == {"EnvironmentError", "RepositoryNotFoundError", "ValueError"}

\* (mutant) the except clause raises again
AfterHfRaise(o) == "done"

\* Where download_model goes after snapshot_download has ended with outcome o:
\* to line 194 when the except clause has caught it
AfterHf(o) == IF o \in Recoverable THEN "dm_url" ELSE "done"

\* (mutant) the archive is preferred when there is one
UseHfUnlessUrl(d) == d.hf /\ ~d.url

\* if hf_source
UseHf(d) == d.hf

\* (mutant) the archive source is tried without looking for it
UseUrlAlways(d) == TRUE

\* if url_source
UseUrl(d) == d.url

\* if hf_source: try: return Path(download_files_from_huggingface(...))
DmHf(p) ==
    /\ pc[p] = "dm_hf"
    /\ IF ~UseHf(desc[p])
       THEN /\ pc' = [pc EXCEPT ![p] = "dm_url"]
            /\ UNCHANGED <<call, result>>
       ELSE \E o \in HfOutcomes :
            /\ call' = [call EXCEPT ![p].hf = TRUE, ![p].hfo = o]
            /\ pc' = [pc EXCEPT ![p] = AfterHf(o)]
            /\ result' = [result EXCEPT ![p] =
                  CASE o = "ok" -> PathResult("hf_snapshot", "hf")
                    [] AfterHf(o) = "dm_url" -> @
                    [] OTHER -> ErrResult(o, "hf")]
    /\ UNCHANGED <<fs, nm, desc, resp, idx, rgres, prev, crashed>>
    /\ UNCHANGED <<arc, aux>>

\* if url_source: return retrieve_model_gcs(...);  raise ValueError(...)
DmUrl(p) ==
    /\ pc[p] = "dm_url"
    /\ IF UseUrl(desc[p])
       THEN /\ pc' = [pc EXCEPT ![p] = "rg_check"]
            /\ call' = [call EXCEPT ![p].arch = @ + 1]
            /\ UNCHANGED result
       ELSE /\ pc' = [pc EXCEPT ![p] = "done"]
            /\ result' = [result EXCEPT ![p] =
                            [ErrResult("ValueError", "dm") EXCEPT !.about = nm[p]]]
            /\ UNCHANGED call
    /\ UNCHANGED <<fs, nm, desc, resp, idx, rgres, prev, crashed>>
    /\ UNCHANGED <<arc, aux>>

\* retrieve_model_gcs has returned or raised: download_model hands it on
DmRet(p) ==
    /\ pc[p] = "dm_ret"
    /\ pc' = [pc EXCEPT ![p] = "done"]
    /\ result' = [result EXCEPT ![p] = rgres[p]]
    /\ UNCHANGED <<fs, nm, desc, resp, idx, rgres, call, prev, crashed>>
    /\ UNCHANGED <<arc, aux>>

----------------------------------------------------------------------------
(* retrieve_model_gcs, with download_file_from_gcs and decompress_to_cache *)

Base(p) == FastModelName(nm[p])

\* retrieve_model_gcs ends with r (a path returned, or an exception that leaves
\* it), the staging directories being st
RgEnd(p, r, st) ==
    /\ pc' = [pc EXCEPT ![p] = "dm_ret"]
    /\ rgres' = [rgres EXCEPT ![p] = r]
    /\ staging' = Stale(st, Base(p))

\* (mutant) a final directory is never taken for a cached copy
CacheHitNever(d) == FALSE

\* model_dir.exists() and len(list(model_dir.glob("*"))) > 0
CacheHit(d) == d.ex /\ d.files # {}

\* if <cache hit>: return model_dir
RgCheck(p) ==
    /\ pc[p] = "rg_check"
    /\ IF CacheHit(final[Base(p)])
       THEN RgEnd(p, PathResult(Base(p), "archive"), staging)
       ELSE /\ pc' = [pc EXCEPT ![p] = "rg_rmstage"]
            /\ UNCHANGED <<rgres, staging>>
    /\ UNCHANGED <<final, stray, tmpdir, targz, nm, desc, resp, idx, result,
                   call, prev, crashed>>
    /\ UNCHANGED <<arc, aux>>

\* (mutant) a staging directory that exists is kept
RmStageKeep(d) == d

\* What shutil.rmtree(model_tmp_dir) leaves of the staging directory d (the
\* states of a removal that is cut short are those of an extraction cut short)
RmStage(d) == Absent

\* if model_tmp_dir.exists(): shutil.rmtree(model_tmp_dir)
RgRmStage(p) ==
    /\ pc[p] = "rg_rmstage"
    /\ pc' = [pc EXCEPT ![p] = "rg_mkdir"]
    /\ IF staging[Base(p)].ex
       THEN /\ staging' = [staging EXCEPT ![Base(p)] = RmStage(@)]
            /\ call' = [call EXCEPT ![p].touched = TRUE]
       ELSE UNCHANGED <<staging, call>>
    /\ UNCHANGED <<final, stray, tmpdir, targz, nm, desc, resp, idx, rgres,
                   result, prev, crashed>>
    /\ UNCHANGED <<arc, aux>>

\* cache_tmp_dir.mkdir(parents=True, exist_ok=True)
RgMkdir(p) ==
    /\ pc[p] = "rg_mkdir"
    /\ pc' = [pc EXCEPT ![p] = "dl_exists"]
    /\ tmpdir' = TRUE
    /\ call' = [call EXCEPT ![p].touched = @ \/ ~tmpdir]
    /\ UNCHANGED <<final, staging, stray, targz, nm, desc, resp, idx, rgres,
                   result, prev, crashed>>
    /\ UNCHANGED <<arc, aux>>

\* if os.path.exists(output_path): return output_path
DlExists(p) ==
    /\ pc[p] = "dl_exists"
    /\ pc' = [pc EXCEPT ![p] = IF targz[Base(p)].ex THEN "dc_isfile" ELSE "dl_get"]
    /\ UNCHANGED <<fs, nm, desc, resp, idx, rgres, result, call, prev, crashed>>
    /\ UNCHANGED <<arc, aux>>

\* (mutant) status 403 is not looked at
ForbiddenIgnored(r) == FALSE

\* response.status_code == 403
Forbidden(r) == r = "forbidden"

\* response = requests.get(url, stream=True); status 403 raises PermissionError
DlGet(p) ==
    /\ pc[p] = "dl_get"
    /\ \E r \in Responses :
        /\ call' = [call EXCEPT ![p].http = TRUE,
                                ![p].bad = (r # "valid"),
                                ![p].cause = CASE r = "connfail" -> "transport"
                                               [] r = "forbidden" -> "forbidden"
                                               [] OTHER -> @]
        /\ CASE r = "connfail" ->
                  /\ RgEnd(p, ErrResult("ConnectionError", "archive"), staging)
                  /\ UNCHANGED resp
             [] Forbidden(r) ->
                  /\ RgEnd(p, ErrResult("PermissionError", "archive"), staging)
                  /\ UNCHANGED resp
             [] OTHER ->
                  /\ pc' = [pc EXCEPT ![p] = "dl_open"]
                  /\ resp' = [resp EXCEPT ![p] = r]
                  /\ UNCHANGED <<rgres, staging>>
    /\ UNCHANGED <<final, stray, tmpdir, targz, nm, desc, idx, result, prev, crashed>>
    /\ UNCHANGED <<arc, aux>>

\* with open(output_path, "wb") as file
DlOpen(p) ==
    /\ pc[p] = "dl_open"
    /\ pc' = [pc EXCEPT ![p] = "dl_write"]
    /\ targz' = [targz EXCEPT ![Base(p)] = [ex |-> TRUE, kind |-> resp[p], len |-> 0]]
    /\ idx' = [idx EXCEPT ![p] = 0]
    /\ call' = [call EXCEPT ![p].touched = TRUE]
    /\ UNCHANGED <<final, staging, stray, tmpdir, nm, desc, resp, rgres, result,
                   prev, crashed>>
    /\ UNCHANGED <<arc, aux>>

\* File f after chunk i of a body of kind k is written at its place.  A file
\* that was unlinked meanwhile stays away; a file that another process has
\* opened for writing meanwhile holds chunks of two transfers, and is damaged
\* unless they are of the same body and leave no gap.
WriteChunk(f, k, i) ==
    IF ~f.ex THEN f
    ELSE [ex |-> TRUE,
          kind |-> IF f.kind = k /\ i <= f.len THEN k ELSE "corrupt",
          len |-> IF f.len > i + 1 THEN f.len ELSE i + 1]

\* for chunk in response.iter_content(chunk_size=1024): file.write(chunk)
\* The connection can break before any chunk.
DlWrite(p) ==
    /\ pc[p] = "dl_write"
    /\ IF idx[p] = NumChunks
       THEN /\ pc' = [pc EXCEPT ![p] = "dc_isfile"]
            /\ UNCHANGED <<targz, idx, call, rgres, staging>>
       ELSE \/ /\ targz' = [targz EXCEPT ![Base(p)] = WriteChunk(@, resp[p], idx[p])]
               /\ idx' = [idx EXCEPT ![p] = @ + 1]
               /\ UNCHANGED <<pc, call, rgres, staging>>
            \/ /\ RgEnd(p, ErrResult("ConnectionError", "archive"), staging)
               /\ call' = [call EXCEPT ![p].bad = TRUE, ![p].cause = "transport"]
               /\ UNCHANGED <<targz, idx>>
    /\ UNCHANGED <<final, stray, tmpdir, nm, desc, resp, result, prev, crashed>>
    /\ UNCHANGED <<arc, aux>>

\* if not os.path.isfile(targz_path): raise ValueError
\* (targz_path always ends with ".tar.gz" here)
DcIsFile(p) ==
    /\ pc[p] = "dc_isfile"
    /\ IF targz[Base(p)].ex
       THEN /\ pc' = [pc EXCEPT ![p] = "dc_extract"]
            /\ idx' = [idx EXCEPT ![p] = 0]
            /\ UNCHANGED <<rgres, staging>>
       ELSE /\ RgEnd(p, ErrResult("ValueError", "archive"), staging)
            /\ UNCHANGED idx
    /\ UNCHANGED <<final, stray, tmpdir, targz, nm, desc, resp, result, call,
                   prev, crashed>>
    /\ UNCHANGED <<arc, aux>>

\* (mutant) nothing is raised for an archive file that breaks off
IntactUnchecked(f) == f.kind \in {"valid", "wrong"}

\* The archive file holds the whole of an archive that tarfile reads to its end
Intact(f) == f.kind \in {"valid", "wrong"} /\ f.len = NumChunks

\* Directory d after extractall has written entry e of the archive into it:
\* entry 0 is the top-level folder itself, entry e > 0 is member e
WriteEntry(d, e) ==
    [ex |-> TRUE,
     files |-> IF e = 0 THEN d.files ELSE d.files \cup {e},
     stale |-> d.ex /\ d.stale]

\* with tarfile.open(targz_path, "r:gz") as tar: tar.extractall(path=cache_dir)
\* The top-level folder of the archive is created under cache_dir/tmp: it is the
\* staging directory unless the archive has another top-level folder.  A file
\* that is no gzip file, or empty, fails to open (tarfile.ReadError); a file
\* that breaks off or is damaged fails after its readable entries have been
\* written, with a TarError or with another exception (EOFError, zlib.error).
\* The file is read as it was when it was opened, also when it is unlinked or
\* written to meanwhile.
DcExtract(p) ==
    /\ pc[p] = "dc_extract"
    /\ LET b == Base(p)
           f == IF idx[p] = 0 THEN targz[b] ELSE arc[p]
           r == Readable(f)
       IN  IF ~f.ex
           THEN /\ RgEnd(p, ErrResult("FileNotFoundError", "archive"), staging)
                /\ UNCHANGED <<stray, tmpdir, idx, call, arc>>
           ELSE IF r = 0
           THEN /\ pc' = [pc EXCEPT ![p] = "dc_cleanup"]
                /\ call' = [call EXCEPT ![p].cause = "corrupt"]
                /\ arc' = [arc EXCEPT ![p] = f]
                /\ UNCHANGED <<staging, stray, tmpdir, idx, rgres>>
           ELSE IF idx[p] <= r
           THEN /\ IF f.kind = "wrong"
                   THEN /\ stray' = WriteEntry(stray, idx[p])
                        /\ UNCHANGED staging
                   ELSE /\ staging' = [staging EXCEPT ![b] = WriteEntry(@, idx[p])]
                        /\ UNCHANGED stray
                /\ tmpdir' = TRUE
                /\ idx' = [idx EXCEPT ![p] = @ + 1]
                /\ call' = [call EXCEPT ![p].touched = TRUE]
                /\ arc' = [arc EXCEPT ![p] = f]
                /\ UNCHANGED <<pc, rgres>>
           ELSE IF Intact(f)
           THEN /\ pc' = [pc EXCEPT ![p] = "rg_assert"]
                /\ call' = [call EXCEPT ![p].cause =
                                IF f.kind = "wrong" THEN "layout" ELSE @]
                /\ UNCHANGED <<staging, stray, tmpdir, idx, rgres, arc>>
           ELSE /\ call' = [call EXCEPT ![p].cause = "corrupt"]
                /\ \/ /\ pc' = [pc EXCEPT ![p] = "dc_cleanup"]
                      /\ UNCHANGED <<staging, rgres>>
                   \/ RgEnd(p, ErrResult("EOFError", "archive"), staging)
                /\ UNCHANGED <<stray, tmpdir, idx, arc>>
    /\ UNCHANGED <<final, targz, nm, desc, resp, result, prev, crashed, aux>>

\* except tarfile.TarError: if "tmp" in cache_dir: shutil.rmtree(cache_dir);
\* raise ValueError.  cache_dir is str(cache_tmp_dir); rmtree raises when
\* another process has removed the directory meanwhile.
DcCleanup(p) ==
    /\ pc[p] = "dc_cleanup"
    /\ IF TmpIn(CacheTmpDir) /\ ~tmpdir
       THEN /\ RgEnd(p, ErrResult("FileNotFoundError", "archive"), staging)
            /\ UNCHANGED <<tmpdir, stray, call>>
       ELSE IF TmpIn(CacheTmpDir)
       THEN /\ tmpdir' = FALSE
            /\ stray' = Absent
            /\ RgEnd(p, ErrResult("ValueError", "archive"), [b \in Bases |-> Absent])
            /\ call' = [call EXCEPT ![p].touched = @ \/ tmpdir]
       ELSE /\ RgEnd(p, ErrResult("ValueError", "archive"), staging)
            /\ UNCHANGED <<tmpdir, stray, call>>
    /\ UNCHANGED <<final, targz, nm, desc, resp, idx, result, prev, crashed>>
    /\ UNCHANGED <<arc, aux>>

\* (mutant) the assertion is not evaluated
AssertSkipped(d) == TRUE

\* model_tmp_dir.exists(), as asserted
AssertHolds(d) == d.ex

\* assert model_tmp_dir.exists()
RgAssert(p) ==
    /\ pc[p] = "rg_assert"
    /\ IF AssertHolds(staging[Base(p)])
       THEN /\ pc' = [pc EXCEPT ![p] = "rg_unlink"]
            /\ UNCHANGED <<rgres, staging>>
       ELSE RgEnd(p, ErrResult("AssertionError", "archive"), staging)
    /\ UNCHANGED call
    /\ UNCHANGED <<final, stray, tmpdir, targz, nm, desc, resp, idx, result,
                   prev, crashed>>
    /\ UNCHANGED <<arc, aux>>

\* (mutant) the archive file is retained
UnlinkKeep(f) == f

\* What model_tar_gz.unlink() leaves of the archive file f
Unlink(f) == NoFile

\* model_tar_gz.unlink()
RgUnlink(p) ==
    /\ pc[p] = "rg_unlink"
    /\ IF targz[Base(p)].ex
       THEN /\ pc' = [pc EXCEPT ![p] = "rg_rename"]
            /\ targz' = [targz EXCEPT ![Base(p)] = Unlink(@)]
            /\ call' = [call EXCEPT ![p].touched = TRUE]
            /\ UNCHANGED <<rgres, staging>>
       ELSE /\ RgEnd(p, ErrResult("FileNotFoundError", "archive"), staging)
            /\ UNCHANGED <<targz, call>>
    /\ UNCHANGED <<final, stray, tmpdir, nm, desc, resp, idx, result, prev, crashed>>
    /\ UNCHANGED <<arc, aux>>

\* Whether os.rename of a directory onto dst succeeds: onto nothing it does,
\* onto an empty directory it does on POSIX and does not on Windows (posix says
\* which), onto a directory with content it never does.
RenameOnto(dst, posix) == ~dst.ex \/ (dst.files = {} /\ posix)

\* model_tmp_dir.rename(model_dir); return model_dir
RgRename(p) ==
    /\ pc[p] = "rg_rename"
    /\ LET b == Base(p)
       IN  \E posix \in BOOLEAN :
             IF staging[b].ex /\ RenameOnto(final[b], posix)
             THEN /\ final' = [final EXCEPT ![b] = staging[b]]
                  /\ RgEnd(p, PathResult(b, "archive"), [staging EXCEPT ![b] = Absent])
                  /\ call' = [call EXCEPT ![p].touched = TRUE]
             ELSE /\ RgEnd(p, ErrResult("OSError", "archive"), staging)
                  /\ UNCHANGED <<final, call>>
    /\ UNCHANGED <<stray, tmpdir, targz, nm, desc, resp, idx, result, prev, crashed>>
    /\ UNCHANGED <<arc, aux>>

----------------------------------------------------------------------------
\* The process is terminated at any point of a call, or ends after one; the
\* next call is made by a new process.
Crash(p) ==
    /\ pc[p] # "idle"
    /\ pc' = [pc EXCEPT ![p] = "idle"]
    /\ crashed' = [crashed EXCEPT ![p] = [at |-> pc[p], base |-> Base(p)]]
    /\ staging' = Stale(staging, Base(p))
    /\ result' = [result EXCEPT ![p] = NoResult]
    /\ rgres' = [rgres EXCEPT ![p] = NoResult]
    /\ call' = [call EXCEPT ![p] = NoCall]
    /\ prev' = [prev EXCEPT ![p] = NoPrev]
    /\ resp' = [resp EXCEPT ![p] = "none"]
    /\ idx' = [idx EXCEPT ![p] = 0]
    /\ UNCHANGED <<final, stray, tmpdir, targz, nm, desc>>
    /\ arc' = [arc EXCEPT ![p] = NoFile]
    /\ UNCHANGED aux

Step(p) ==
    \/ \E n \in Names, d \in Descs : DownloadModel(p, n, d)
    \/ DmHf(p)
    \/ DmUrl(p)
    \/ DmRet(p)
    \/ RgCheck(p)
    \/ RgRmStage(p)
    \/ RgMkdir(p)
    \/ DlExists(p)
    \/ DlGet(p)
    \/ DlOpen(p)
    \/ DlWrite(p)
    \/ DcIsFile(p)
    \/ DcExtract(p)
    \/ DcCleanup(p)
    \/ RgAssert(p)
    \/ RgUnlink(p)
    \/ RgRename(p)
    \/ Crash(p)

Next == \E p \in Procs : Step(p)

Spec == Init /\ [][Next]_vars

----------------------------------------------------------------------------
(* Claims *)

\* C1: in every step, final_dir is absent or holds the complete contents of the
\* archive, and it changes only by the rename of a fully extracted staging_dir
\* onto an absent final_dir, made by a process that is at its rename step.
C1_FinalAbsentOrComplete ==
    [][\A b \in Bases :
        /\ final'[b].ex => Full(final'[b])
        /\ final'[b] # final[b] =>
              /\ ~final[b].ex
              /\ Full(staging[b])
              /\ final'[b] = staging[b]
              /\ ~staging'[b].ex
              /\ \E p \in Procs : pc[p] = "rg_rename" /\ Base(p) = b]_vars

\* A process was killed in the middle of the extraction, and the call after it
\* has put the complete contents at final_dir.
C1_Witness ==
    \E p \in Procs :
        /\ crashed[p].at = "dc_extract"
        /\ pc[p] = "done"
        /\ Full(final[Base(p)])

\* The positions inside retrieve_model_gcs
ArchivePcs == {"rg_check", "rg_rmstage", "rg_mkdir", "dl_exists", "dl_get",
               "dl_open", "dl_write", "dc_isfile", "dc_extract", "dc_cleanup",
               "rg_assert", "rg_unlink", "rg_rename"}

\* The call in progress, or just ended, is the first acquisition through the
\* archive source of the artifact whose acquisition was killed before
AfterCrash(p) == crashed[p].base = Base(p) /\ call[p].arch > 0

\* C2: once an archive-source acquisition was killed at any point, the next
\* acquisition of the same artifact that goes through the archive source, made
\* while the URL serves the valid archive, returns a fully populated final_dir.
C2_NextAcquisitionAfterCancel ==
    \A p \in Procs :
        (/\ crashed[p].at \in ArchivePcs
         /\ AfterCrash(p)
         /\ pc[p] = "done"
         /\ ~call[p].bad)
        => /\ result[p] = PathResult(Base(p), "archive")
           /\ Full(final[Base(p)])

\* C3: a process killed after download and extraction and before the rename
\* leaves final_dir absent and staging_dir populated; the next archive-source
\* acquisition of that artifact has removed the stale staging_dir before it
\* downloads or extracts, promotes no stale content, and returns a fully
\* populated final_dir (unless it has to download again and the URL does not
\* serve the valid archive).
C3_StaleStagingRemoved ==
    \A p \in Procs :
        crashed[p].at \in {"rg_unlink", "rg_rename"} =>
            LET b == crashed[p].base
            IN  /\ pc[p] = "idle" =>
                      ~final[b].ex /\ Full(staging[b]) /\ staging[b].stale
                /\ (AfterCrash(p) /\ pc[p] \in {"rg_mkdir", "dl_exists", "dl_get",
                                                 "dl_open", "dl_write", "dc_isfile"})
                      => ~staging[b].ex
                /\ (AfterCrash(p) /\ pc[p] \in ArchivePcs \ {"rg_check", "rg_rmstage"})
                      => ~staging[b].stale
                /\ final[b].ex => ~final[b].stale
                /\ (AfterCrash(p) /\ pc[p] = "done" /\ ~call[p].bad)
                      => /\ result[p] = PathResult(b, "archive")
                         /\ Full(final[b])

\* Killed right before the rename, and the next call has downloaded the archive
\* again and returned the populated final_dir.
C3_Witness ==
    \E p \in Procs :
        /\ crashed[p].at = "rg_rename"
        /\ AfterCrash(p)
        /\ pc[p] = "done"
        /\ call[p].http
        /\ result[p] = PathResult(Base(p), "archive")
        /\ Full(final[Base(p)])

\* The call in progress, or just ended, is the second of two calls in a row of
\* the same process with the same artifact name and sources
SecondCall(p) ==
    /\ pc[p] # "idle"
    /\ prev[p].res.kind = "path"
    /\ prev[p].nm = nm[p]
    /\ prev[p].desc = desc[p]

\* C4 as stated: the second of two calls in a row returns the path of the first
\* and issues neither a repository fetch nor an HTTP request.
C4_SecondCallNoNetwork ==
    \A p \in Procs :
        SecondCall(p) =>
            /\ ~call[p].hf
            /\ ~call[p].http
            /\ pc[p] = "done" => result[p] = prev[p].res

\* C4 (amended): when the first of two calls in a row returned final_dir from
\* the archive source, the second issues no HTTP request and, unless the
\* repository collaborator decides its outcome, returns the same path; with an
\* archive-only descriptor it issues no repository fetch either.  With a
\* repository source in the descriptor the second call fetches from the
\* repository collaborator again.
C4_SecondCallFromCache ==
    \A p \in Procs :
        SecondCall(p) =>
            /\ prev[p].res = PathResult(Base(p), "archive") =>
                  /\ ~call[p].http
                  /\ ~desc[p].hf => ~call[p].hf
                  /\ pc[p] = "done" =>
                        \/ result[p] = prev[p].res
                        \/ call[p].hfo \in {"ok", "Other"}
            /\ (desc[p].hf /\ pc[p] # "dm_hf") => call[p].hf

\* Two calls in a row with an archive-only descriptor: the first returned
\* final_dir, the second has returned it again.
C4_Witness ==
    \E p \in Procs :
        /\ SecondCall(p)
        /\ pc[p] = "done"
        /\ desc[p] = [hf |-> FALSE, url |-> TRUE]
        /\ prev[p].call.http
        /\ result[p] = PathResult(Base(p), "archive")
        /\ result[p] = prev[p].res

\* The kinds of failure of the repository attempt that download_model is to
\* recover from
RecoverableKinds == {"EnvironmentError", "RepositoryNotFoundError", "ValueError"}

Both == [hf |-> TRUE, url |-> TRUE]

\* C5: with both sources, once the repository attempt has failed with a
\* recoverable kind, the archive source has been attempted exactly once, and
\* download_model ends with the outcome of that attempt, unmodified, and not
\* with the failure of the repository attempt.
C5_FallbackToArchive ==
    \A p \in Procs :
        (desc[p] = Both /\ call[p].hfo \in RecoverableKinds) =>
            /\ pc[p] # "dm_url" => call[p].arch = 1
            /\ pc[p] = "done" =>
                  /\ result[p] = rgres[p]
                  /\ result[p].kind \in {"path", "error"}
                  /\ result[p].from = "archive"

\* Repository not found, and the archive source has served the artifact.
C5_Witness ==
    \E p \in Procs :
        /\ desc[p] = Both
        /\ call[p].hfo = "RepositoryNotFoundError"
        /\ pc[p] = "done"
        /\ call[p].http
        /\ result[p] = PathResult(Base(p), "archive")

\* C6: once the repository attempt has raised an error of another kind,
\* download_model has ended with that error: the archive source was not
\* attempted, no HTTP request was issued, the cache directory was not changed.
C6_UnexpectedErrorPropagates ==
    \A p \in Procs :
        (call[p].hfo \notin RecoverableKinds \cup {"none", "ok"}) =>
            /\ pc[p] = "done"
            /\ result[p] = ErrResult(call[p].hfo, "hf")
            /\ call[p].arch = 0
            /\ ~call[p].http
            /\ ~call[p].touched

\* An error of another kind, with an archive source in the descriptor.
C6_Witness ==
    \E p \in Procs :
        /\ desc[p] = Both
        /\ call[p].hfo = "Other"
        /\ pc[p] = "done"

\* C7: once the repository attempt has succeeded, download_model has returned
\* the collaborator's path without attempting the archive source; and the
\* archive source of a descriptor with a repository source is attempted only
\* after the repository was.
C7_RepositoryPreferred ==
    \A p \in Procs :
        /\ (desc[p].hf /\ pc[p] \notin {"idle", "dm_hf"} /\ call[p].hfo = "ok") =>
              /\ pc[p] = "done"
              /\ result[p] = PathResult("hf_snapshot", "hf")
              /\ call[p].arch = 0
              /\ ~call[p].http
              /\ ~call[p].touched
        /\ (desc[p].hf /\ call[p].arch > 0) => call[p].hf
        /\ (desc[p].hf /\ pc[p] \notin {"idle", "dm_hf"}) => call[p].hf

\* The repository has served an artifact whose final_dir is populated.
C7_Witness ==
    \E p \in Procs :
        /\ desc[p] = Both
        /\ call[p].hfo = "ok"
        /\ pc[p] = "done"
        /\ Full(final[Base(p)])
        /\ result[p] = PathResult("hf_snapshot", "hf")

\* The error of line 197
TerminalError(p) == [ErrResult("ValueError", "dm") EXCEPT !.about = nm[p]]

\* C8: download_model ends with the terminal error naming the artifact exactly
\* when the descriptor has no source, or has a repository source only and the
\* repository attempt failed with a recoverable kind; then no archive download
\* was attempted and the cache directory was not modified.
C8_TerminalError ==
    \A p \in Procs :
        pc[p] = "done" =>
            /\ result[p] = TerminalError(p) <=>
                  \/ ~desc[p].hf /\ ~desc[p].url
                  \/ desc[p].hf /\ ~desc[p].url /\ call[p].hfo \in RecoverableKinds
            /\ result[p] = TerminalError(p) =>
                  /\ call[p].arch = 0
                  /\ ~call[p].http
                  /\ ~call[p].touched

\* A repository-only descriptor whose repository attempt failed.
C8_Witness ==
    \E p \in Procs :
        /\ pc[p] = "done"
        /\ desc[p] = [hf |-> TRUE, url |-> FALSE]
        /\ call[p].hfo = "EnvironmentError"
        /\ result[p] = TerminalError(p)

\* C9: once archive-source acquisition has met a failure before the rename (the
\* request rejected with 403, the transport failed, the archive did not extract,
\* or its top-level folder is not staging_dir), it goes no further than the
\* cleanup and the assertion: retrieve_model_gcs and download_model end with an
\* error, and final_dir is absent.
C9_FailureLeavesFinalAbsent ==
    \A p \in Procs :
        call[p].cause # "none" =>
            /\ pc[p] \in {"dc_cleanup", "rg_assert", "dm_ret", "done"}
            /\ pc[p] = "rg_assert" => call[p].cause = "layout"
            /\ pc[p] \in {"dm_ret", "done"} => rgres[p].kind = "error"
            /\ pc[p] = "done" => result[p].kind = "error" /\ result[p] = rgres[p]
            /\ ~final[Base(p)].ex

\* An archive with another top-level folder was extracted, and the call has
\* ended with the assertion's error.
C9_Witness ==
    \E p \in Procs :
        /\ call[p].cause = "layout"
        /\ pc[p] = "done"
        /\ Full(stray)
        /\ result[p] = ErrResult("AssertionError", "archive")
        /\ ~final[Base(p)].ex

\* C10: after an archive-source acquisition has failed before the rename, a
\* later acquisition of the same artifact through the archive source, made
\* while the URL serves the valid archive, returns a fully populated final_dir.
C10_RetryAfterFailure ==
    \A p \in Procs :
        (/\ pc[p] = "done"
         /\ prev[p].nm = nm[p]
         /\ prev[p].call.arch > 0
         /\ prev[p].call.cause # "none"
         /\ call[p].arch > 0
         /\ ~call[p].bad)
        => /\ result[p] = PathResult(Base(p), "archive")
           /\ Full(final[Base(p)])

\* C12: once the archive request was answered with status 403,
\* retrieve_model_gcs has ended with the PermissionError, which download_model
\* ends with too; no archive file was created, nothing was extracted or
\* renamed, and final_dir is absent.
C12_ForbiddenPropagates ==
    \A p \in Procs :
        call[p].cause = "forbidden" =>
            /\ pc[p] \in {"dm_ret", "done"}
            /\ rgres[p] = ErrResult("PermissionError", "archive")
            /\ pc[p] = "done" => result[p] = rgres[p]
            /\ ~targz[Base(p)].ex
            /\ ~staging[Base(p)].ex
            /\ ~final[Base(p)].ex

\* The repository was not found, the archive request was rejected, and the
\* caller has the PermissionError.
C12_Witness ==
    \E p \in Procs :
        /\ call[p].cause = "forbidden"
        /\ call[p].hfo = "RepositoryNotFoundError"
        /\ pc[p] = "done"
        /\ result[p] = ErrResult("PermissionError", "archive")

\* The directory exists and is not empty
Populated(d) == d.ex /\ d.files # {}

\* C14: a call of retrieve_model_gcs that finds final_dir existing and not empty
\* returns final_dir in that step, without an HTTP request and with final_dir,
\* the staging directories, cache_dir/tmp and the archive files as they were;
\* and no step of a process changes a final_dir that exists and is not empty.
C14_CacheHitNoOp ==
    [][/\ \A b \in Bases : Populated(final[b]) => final'[b] = final[b]
       /\ \A p \in Procs :
            (/\ pc[p] = "rg_check"
             /\ Populated(final[Base(p)])
             /\ pc'[p] # "idle")
            => /\ pc'[p] = "dm_ret"
               /\ rgres'[p] = PathResult(Base(p), "archive")
               /\ call'[p].http = call[p].http
               /\ call'[p].touched = call[p].touched
               /\ UNCHANGED <<final, stray, tmpdir, targz>>
               /\ \A b \in Bases : /\ staging'[b].ex = staging[b].ex
                                   /\ staging'[b].files = staging[b].files]_vars

\* retrieve_model_gcs, called after a failed repository attempt, has returned
\* the final_dir that was there, having done nothing else.
C14_Witness ==
    \E p \in Procs :
        /\ pc[p] = "dm_ret"
        /\ call[p].hfo = "ValueError"
        /\ call[p].arch = 1
        /\ ~call[p].http
        /\ ~call[p].touched
        /\ Full(final[Base(p)])
        /\ rgres[p] = PathResult(Base(p), "archive")

\* C15: when an archive-source acquisition that had to fetch or extract has
\* returned, the archive file and staging_dir do not exist and final_dir holds
\* the archive's contents; and the archive file is gone when the rename is made.
C15_TransientStateGone ==
    \A p \in Procs :
        /\ (/\ pc[p] \in {"dm_ret", "done"}
            /\ rgres[p] = PathResult(Base(p), "archive")
            /\ call[p].touched)
           => /\ ~targz[Base(p)].ex
              /\ ~staging[Base(p)].ex
              /\ Full(final[Base(p)])
        /\ pc[p] = "rg_rename" => ~targz[Base(p)].ex

\* An acquisition has downloaded, extracted and renamed, and has returned.
C15_Witness ==
    \E p \in Procs :
        /\ pc[p] = "done"
        /\ call[p].http
        /\ call[p].touched
        /\ ~call[p].hf
        /\ result[p] = PathResult(Base(p), "archive")
        /\ tmpdir

\* C18: once a call that made the HTTP request is over, a file at the place of
\* the archive file holds the whole body of a successful response: not the body
\* of an error status, and not the first chunks of a transfer that broke off.
C18_OnlyCompleteFileRemains ==
    \A p \in Procs :
        (/\ pc[p] \in {"dm_ret", "done"}
         /\ call[p].http
         /\ targz[Base(p)].ex)
        => /\ targz[Base(p)].kind # "errpage"
           /\ targz[Base(p)].len = NumChunks

----------------------------------------------------------------------------
(* Two processes on one cache directory *)

\* model["sources"] with an archive URL only
ArchiveOnly == [hf |-> FALSE, url |-> TRUE]

\* Each of two processes makes one call of download_model, for an artifact
\* with an archive source only, against the same cache directory; their steps
\* interleave in any order.
RaceStep(p) ==
    \/ \E n \in AllNames : pc[p] = "idle" /\ DownloadModel(p, n, ArchiveOnly)
    \/ DmHf(p)
    \/ DmUrl(p)
    \/ DmRet(p)
    \/ RgCheck(p)
    \/ RgRmStage(p)
    \/ RgMkdir(p)
    \/ DlExists(p)
    \/ DlGet(p)
    \/ DlOpen(p)
    \/ DlWrite(p)
    \/ DcIsFile(p)
    \/ DcExtract(p)
    \/ DcCleanup(p)
    \/ RgAssert(p)
    \/ RgUnlink(p)
    \/ RgRename(p)

NextRace == \E p \in AllProcs : RaceStep(p)

SpecRace == Init /\ [][NextRace]_vars

\* Both processes have made their call
BothCalled == \A p \in AllProcs : pc[p] # "idle"

\* C16: when both processes acquire the same artifact, a final_dir that exists
\* and is not empty holds the complete contents of the archive, before and
\* after every step, and no step changes it.
C16_SameNameFinalComplete ==
    [][(BothCalled /\ nm[1] = nm[2]) =>
          \A b \in Bases :
              /\ Populated(final[b]) => Full(final[b]) /\ final'[b] = final[b]
              /\ Populated(final'[b]) => Full(final'[b])]_vars

\* The process that a change of the staging directory of b can be the work of:
\* one that acquires b and has taken a step
ActedOn(b) ==
    \E p \in AllProcs :
        /\ Base(p) = b
        /\ <<pc[p], idx[p]>> # <<pc'[p], idx'[p]>>

\* C17: when the processes acquire different artifacts, the staging directory
\* of an artifact is changed only by steps of the process that acquires it,
\* and every final_dir is absent or holds the complete contents of its archive.
C17_DifferentNamesIndependent ==
    [][(BothCalled /\ nm[1] # nm[2]) =>
          \A b \in Bases :
              /\ (staging'[b].ex # staging[b].ex \/ staging'[b].files # staging[b].files)
                    => ActedOn(b)
              /\ final'[b].ex => Full(final'[b])]_vars

----------------------------------------------------------------------------
(* decompress_to_cache, called by another caller with paths of its own *)

\* The variables of the acquisitions
acq == <<final, staging, stray, tmpdir, targz, pc, nm, desc, resp, idx, arc,
         rgres, result, call, prev, crashed>>

\* cache_dir as given: its path segments
DestPaths == {<<"data", "tmp">>, <<"tmp", "out">>, <<"data", "out">>,
              <<"data", "tmpl">>, <<"mytmp", "out">>}

\* targz_path as given: its path segments
ArchivePaths == {<<"data", "a.tar.gz">>, <<"data", "a.tgz">>}

\* targz_path.endswith(".tar.gz")
EndsWithTarGz(path) == path[Len(path)] \in {"a.tar.gz"}

\* What is at cache_dir before the call: nothing, an empty directory, or a
\* directory with content of the caller
DestStates == {Absent,
               [ex |-> TRUE, files |-> {}, stale |-> FALSE],
               [ex |-> TRUE, files |-> {}, stale |-> TRUE]}

\* What is at targz_path: nothing, or a file with the first len chunks of an
\* archive, of a damaged archive, or of something that is no archive
ArchiveFiles ==
    {NoFile} \cup [ex : {TRUE}, kind : {"valid", "corrupt", "errpage"},
                   len : 0..NumChunks]

\* A call of decompress_to_cache(targz_path, cache_dir) about to start:
\* dir0 is what was at cache_dir then, removed whether rmtree has removed it
DcInputs ==
    {[pc |-> "check", targz_path |-> t, cache_dir |-> c, file |-> f,
      dir0 |-> d, dir |-> d, idx |-> 0, cause |-> "none", removed |-> FALSE,
      res |-> NoResult] :
        t \in ArchivePaths, c \in DestPaths, f \in ArchiveFiles, d \in DestStates}

InitDecompress ==
    /\ Quiet
    /\ loc = NoLoc
    /\ dc \in DcInputs

\* The call ends with exception e, whose message names the path about
DcRaise(e, about) ==
    dc' = [dc EXCEPT !.pc = "done",
                     !.res = [ErrResult(e, "decompress") EXCEPT !.about = about]]

\* if not os.path.isfile(targz_path): raise ValueError
\* if not targz_path.endswith(".tar.gz"): raise ValueError
DecompressCheck ==
    /\ dc.pc = "check"
    /\ IF ~dc.file.ex \/ ~EndsWithTarGz(dc.targz_path)
       THEN DcRaise("ValueError", dc.targz_path)
       ELSE dc' = [dc EXCEPT !.pc = "extract"]
    /\ UNCHANGED <<acq, loc>>

\* with tarfile.open(targz_path, "r:gz") as tar: tar.extractall(path=cache_dir);
\* return cache_dir.  One entry is written in a step.  A file that does not
\* open, or that breaks off or is damaged after its readable entries, raises a
\* TarError, which is caught, or another exception (EOFError, zlib.error),
\* which is not.
DecompressExtract ==
    /\ dc.pc = "extract"
    /\ LET r == Readable(dc.file)
       IN  IF r = 0
           THEN dc' = [dc EXCEPT !.pc = "cleanup", !.cause = "corrupt"]
           ELSE IF dc.idx <= r
           THEN dc' = [dc EXCEPT !.dir = WriteEntry(@, dc.idx), !.idx = @ + 1]
           ELSE IF Intact(dc.file)
           THEN dc' = [dc EXCEPT !.pc = "done",
                                 !.res = PathResult(dc.cache_dir, "decompress")]
           ELSE \/ dc' = [dc EXCEPT !.pc = "cleanup", !.cause = "corrupt"]
                \/ dc' = [dc EXCEPT !.pc = "done", !.cause = "corrupt",
                                    !.res = ErrResult("EOFError", "decompress")]
    /\ UNCHANGED <<acq, loc>>

\* except tarfile.TarError: if "tmp" in cache_dir: shutil.rmtree(cache_dir);
\* raise ValueError(f"An error occurred while decompressing {targz_path}: {e}")
\* rmtree raises FileNotFoundError, naming cache_dir, when nothing is there.
DecompressCleanup ==
    /\ dc.pc = "cleanup"
    /\ IF TmpIn(dc.cache_dir) /\ ~dc.dir.ex
       THEN DcRaise("FileNotFoundError", dc.cache_dir)
       ELSE IF TmpIn(dc.cache_dir)
       THEN dc' = [dc EXCEPT !.pc = "done", !.dir = Absent, !.removed = TRUE,
                      !.res = [ErrResult("ValueError", "decompress")
                                  EXCEPT !.about = dc.targz_path]]
       ELSE DcRaise("ValueError", dc.targz_path)
    /\ UNCHANGED <<acq, loc>>

NextDecompress ==
    \/ DecompressCheck
    \/ DecompressExtract
    \/ DecompressCleanup

SpecDecompress == InitDecompress /\ [][NextDecompress]_vars

\* The path has a segment that is named tmp
HasTmpSegment(path) == \E i \in DOMAIN path : path[i] = "tmp"

\* C11: when decompress_to_cache has failed on a corrupt archive, cache_dir has
\* been removed if and only if its path has a segment named tmp, and the call
\* has ended with an error that names targz_path.
C11_CleanupIffTmpSegment ==
    (dc.pc = "done" /\ dc.cause = "corrupt") =>
        /\ dc.removed <=> HasTmpSegment(dc.cache_dir)
        /\ dc.res.kind = "error"
        /\ dc.res.about = dc.targz_path

----------------------------------------------------------------------------
(* locate_model_file *)

\* The deepest level of subdirectories under model_dir, and the longest list
\* of candidate names
MaxDepth == 1
MaxCands == 2

\* The names that files and directories of the tree have, and the names that
\* a caller asks for
FileNames == {"weights.onnx", "model.onnx"}
CandNames == FileNames \cup {"config.json"}

Levels == 0..MaxDepth

\* The trees under model_dir: a chain of subdirectories down to level depth,
\* and at every level, for each name, nothing, a regular file or a directory
Trees ==
    {t \in [depth : Levels, at : [Levels \X FileNames -> {"none", "file", "dir"}]] :
        \A l \in Levels, n \in FileNames : l > t.depth => t.at[<<l, n>>] = "none"}

NoTree == [depth |-> 0, at |-> [x \in Levels \X FileNames |-> "none"]]

\* The lists of candidate names
CandLists == UNION {[1..k -> CandNames] : k \in 0..MaxCands}

\* A call of locate_model_file(model_dir, file_names) about to start: what is
\* at model_dir (a directory with a tree under it, a file, or nothing)
LocInputs ==
    {[pc |-> "is_dir", arg |-> "dir", tree |-> t, file_names |-> c, i |-> 1,
      res |-> NoResult] : t \in Trees, c \in CandLists}
    \cup
    {[pc |-> "is_dir", arg |-> a, tree |-> NoTree, file_names |-> c, i |-> 1,
      res |-> NoResult] : a \in {"file", "missing"}, c \in CandLists}

InitLocate ==
    /\ Quiet
    /\ dc = NoDc
    /\ loc \in LocInputs

\* What the tree has at level l under the name n
Entry(t, l, n) == IF n \in FileNames THEN t.at[<<l, n>>] ELSE "none"

\* model_dir.rglob(file_name): the levels where something has that name
Rglob(t, n) == {l \in 0..t.depth : Entry(t, l, n) # "none"}

\* (mutant) whatever has the name is taken
IsFileAny(k) == TRUE

\* path.is_file()
IsFile(k) == k = "file"

\* [path for path in model_dir.rglob(file_name) if path.is_file()]
FilePaths(t, n) == {l \in Rglob(t, n) : IsFile(Entry(t, l, n))}

\* The call ends with ValueError: msg is its message, names the file names
\* that the message lists
LocRaise(msg, names) ==
    [kind |-> "error", val |-> "ValueError", from |-> msg, about |-> names]

\* if not model_dir.is_dir(): raise ValueError("... is not a directory.")
LocateIsDir ==
    /\ loc.pc = "is_dir"
    /\ IF loc.arg = "dir"
       THEN loc' = [loc EXCEPT !.pc = "for"]
       ELSE loc' = [loc EXCEPT !.pc = "done",
                               !.res = LocRaise("is not a directory", <<>>)]
    /\ UNCHANGED <<acq, dc>>

\* for file_name in file_names: ... if file_paths: return file_paths[0]
\* The order of the walk is that of the directory listing: any of the matches
\* can be the first.
LocateFor ==
    /\ loc.pc = "for"
    /\ loc.i <= Len(loc.file_names)
    /\ LET n == loc.file_names[loc.i]
       IN  IF FilePaths(loc.tree, n) # {}
           THEN \E l \in FilePaths(loc.tree, n) :
                   loc' = [loc EXCEPT !.pc = "done",
                                      !.res = PathResult(<<l, n>>, "locate")]
           ELSE loc' = [loc EXCEPT !.i = @ + 1]
    /\ UNCHANGED <<acq, dc>>

\* raise ValueError(f"Could not find either of {', '.join(file_names)} in ...")
LocateRaise ==
    /\ loc.pc = "for"
    /\ loc.i > Len(loc.file_names)
    /\ loc' = [loc EXCEPT !.pc = "done",
                          !.res = LocRaise("Could not find either of", loc.file_names)]
    /\ UNCHANGED <<acq, dc>>

NextLocate ==
    \/ LocateIsDir
    \/ LocateFor
    \/ LocateRaise

SpecLocate == InitLocate /\ [][NextLocate]_vars

\* A regular file with name n is somewhere under model_dir
HasMatch(t, n) == \E l \in 0..t.depth : Entry(t, l, n) = "file"

\* C13: when locate_model_file has ended: if model_dir is no directory, with
\* the not-a-directory error; if no candidate names a regular file anywhere in
\* the tree, with the error that lists all candidates; otherwise with the path
\* of a regular file of the tree whose name is the first candidate of the list
\* that names a regular file at some level.
C13_EarliestCandidateWins ==
    loc.pc = "done" =>
        LET t == loc.tree
            c == loc.file_names
            hits == {i \in DOMAIN c : HasMatch(t, c[i])}
        IN  IF loc.arg # "dir"
            THEN loc.res = LocRaise("is not a directory", <<>>)
            ELSE IF hits = {}
            THEN loc.res = LocRaise("Could not find either of", c)
            ELSE /\ loc.res.kind = "path"
                 /\ \E i \in hits :
                        /\ \A j \in hits : i <= j
                        /\ loc.res.val[2] = c[i]
                 /\ loc.res.val[1] \in 0..t.depth
                 /\ Entry(t, loc.res.val[1], loc.res.val[2]) = "file"

\* The first candidate is a file in a subdirectory only, the second a file at
\* the top level, and the call has returned the file of the subdirectory.
C13_Witness ==
    /\ loc.pc = "done"
    /\ Len(loc.file_names) = 2
    /\ loc.file_names[1] # loc.file_names[2]
    /\ Entry(loc.tree, 0, loc.file_names[1]) # "file"
    /\ Entry(loc.tree, 0, loc.file_names[2]) = "file"
    /\ loc.res.kind = "path"
    /\ loc.res.val = <<1, loc.file_names[1]>>

====
